---- MODULE Spec2Model ----
(***************************************************************************)
(* Relay engine of the Arbitrum -> BitLayer bridge backend                 *)
(* (src/backend/src/index.ts).                                             *)
(*                                                                         *)
(* The file holds two generations of the webhook handler: the current one  *)
(* (lines 1-269, token registry TOKENS + handleNativeTransfer /            *)
(* handleTokenTransfer) and the legacy one (lines 270-447, hard-coded      *)
(* WBTC / USDT branches).  `deployment` selects which one runs.            *)
(*                                                                         *)
(* Granularity.  Node runs every handler on one event loop.  A handler     *)
(* only gives up control at an await on network I/O (sendTransaction /     *)
(* contract.transfer, tx.wait); each such await is settled by its own I/O  *)
(* callback, so one step of the model is one handler running from one      *)
(* suspension point to the next.  The hourly setInterval callback is a     *)
(* timer task and can run between any two such steps.                      *)
(*                                                                         *)
(* The parts of the module, each with its own specification:               *)
(*   Spec, SpecBatch   the webhook dispatcher and the idempotency guard    *)
(*   SpecConversion    the amount conversions of the payout handlers and   *)
(*                     of the monitor, applied to one amount               *)
(*   SpecMonitor       the confirmation monitor of the frontend            *)
(*                     (src/frontend/src/components/Bridge.tsx), with      *)
(*                     SpecMonitorFair (the event loop keeps running) and  *)
(*                     SpecMonitorReliable (and every read is truthful)    *)
(*   SpecBridge        the frontend starting a monitor next to the         *)
(*                     backend handling the same transfer                  *)
(*   SpecRetry         one call through the frontend's withRetry           *)
(*   SpecSubmit        one payout at a time from its submission to the     *)
(*                     return of the payout handler                        *)
(*   SpecPair          two monitors of one wallet, ticks taken as a whole  *)
(* A specification leaves the variables of the other parts at rest.        *)
(***************************************************************************)
EXTENDS Integers, Sequences, FiniteSets, TLC

\* ------------------------------------------------------------------ bounds
NumRequests == 2      \* webhook deliveries in one behaviour
MaxBatchLen == 2      \* activities per delivery
MaxClears   == 1      \* firings of the hourly timer in one behaviour
MaxActivities == 2    \* activities of all deliveries of one behaviour together
MaxMantissa == 12     \* amounts are m * 10^k units of 1e-8, m up to MaxMantissa
MaxHeight == 4        \* heights of the destination chain
MaxAttempts == 2      \* the monitor's maxAttempts (120 in the code)
MaxInFlight == 2      \* ticks of the monitor in flight at the same time

Requests == 1..NumRequests

\* ------------------------------------------------------- strings, addresses
\* Addresses are sequences of characters (three characters stand for the 40
\* hex digits); Undefined is a missing property / unset environment variable.
Undefined == << >>

UpperToLower ==
    [c \in {"A", "B", "C", "D", "E", "F"} |->
        CASE c = "A" -> "a" [] c = "B" -> "b" [] c = "C" -> "c"
          [] c = "D" -> "d" [] c = "E" -> "e" [] c = "F" -> "f"]

\* String.prototype.toLowerCase
toLowerCase(s) ==
    [i \in DOMAIN s |-> IF s[i] \in DOMAIN UpperToLower THEN UpperToLower[s[i]] ELSE s[i]]

BRIDGE_WALLET_ADDRESS == <<"9", "A", "d">>
WBTC_ARBITRUM_ADDRESS == <<"2", "f", "B">>
USDT_ARBITRUM_ADDRESS == <<"F", "d", "0">>
USDT_BITLAYER_ADDRESS == <<"f", "e", "9">>

\* ------------------------------------------------------------ JS numbers
\* activity.value is a JS number; the model writes it as a count of 1e-8
\* units.  Number.prototype.toString switches to exponent notation below
\* 1e-6, and ethers' parseUnits rejects exponent notation and more
\* fractional digits than `decimals`.
ValueScale == 8

RECURSIVE Pow10(_)
Pow10(n) == IF n = 0 THEN 1 ELSE 10 * Pow10(n - 1)

RECURSIVE TrailingZeros(_)
TrailingZeros(v) == IF v = 0 \/ v % 10 # 0 THEN 0 ELSE 1 + TrailingZeros(v \div 10)

\* number of fractional digits of value.toString() (plain notation)
FractionDigits(v) ==
    IF v = 0 THEN 0
    ELSE IF TrailingZeros(v) >= ValueScale THEN 0 ELSE ValueScale - TrailingZeros(v)

\* an activity.value whose toString() is no decimal number (NaN)
NotANumber == 0 - 1

\* value.toString() is in exponent notation ("1e-7")
IsExponentNotation(v) == v > 0 /\ v < Pow10(ValueScale - 6)

\* ethers.utils.parseUnits(value.toString(), decimals) throws
parseUnitsThrows(v, decimals) ==
    \/ v = NotANumber
    \/ IsExponentNotation(v)
    \/ FractionDigits(v) > decimals

\* ------------------------------------------------- amounts, digit by digit
\* A BigNumber is its sequence of decimal digits, most significant first
\* (<<0>> is zero); an 18-decimal amount does not fit a machine integer.
\* A decimal string is [decimal, int, frac]: decimal is FALSE when the text
\* is not of the form digits[.digits] (exponent notation, not a number),
\* int and frac are the digits before and after the point.
Throws == <<-1>>          \* the call raised an exception
NoAmount == << >>         \* no amount was computed
RECURSIVE Digits(_)
Digits(n) == IF n < 10 THEN <<n>> ELSE Append(Digits(n \div 10), n % 10)

RECURSIVE Zeros(_)
Zeros(k) == IF k <= 0 THEN << >> ELSE <<0>> \o Zeros(k - 1)

RECURSIVE StripLeadingZeros(_)
StripLeadingZeros(s) ==
    IF Len(s) > 1 /\ s[1] = 0 THEN StripLeadingZeros(Tail(s)) ELSE s

RECURSIVE StripTrailingZeros(_)
StripTrailingZeros(s) ==
    IF Len(s) > 0 /\ s[Len(s)] = 0 THEN StripTrailingZeros(SubSeq(s, 1, Len(s) - 1)) ELSE s

\* the JS number v * 1e-8 as [int, frac] (frac without trailing zeros)
NumberOf(v) ==
    [int  |-> Digits(v \div Pow10(ValueScale)),
     frac |-> StripTrailingZeros(
                 Zeros(ValueScale - Len(Digits(v % Pow10(ValueScale))))
                     \o Digits(v % Pow10(ValueScale)))]

\* Number.prototype.toString: exponent notation below 1e-6 ("5e-7"), plain
\* digits otherwise ("0.005", "1")
numberToString(n) ==
    IF /\ n.int = <<0>>
       /\ Len(n.frac) > 6
       /\ SubSeq(n.frac, 1, 6) = Zeros(6)
    THEN [decimal |-> FALSE, int |-> <<0>>, frac |-> << >>]
    ELSE [decimal |-> TRUE, int |-> n.int, frac |-> n.frac]

\* activity.value.toString()
valueToString(v) ==
    IF v = NotANumber THEN [decimal |-> FALSE, int |-> <<0>>, frac |-> << >>]
    ELSE numberToString(NumberOf(v))

\* ethers.utils.parseUnits(text, decimals): the text scaled by 10^decimals;
\* throws on text that is no decimal or has more than `decimals` digits
\* after the point
parseUnits(text, decimals) ==
    IF ~text.decimal \/ Len(text.frac) > decimals THEN Throws
    ELSE StripLeadingZeros(text.int \o text.frac \o Zeros(decimals - Len(text.frac)))

\* ethers.utils.formatUnits(amount, decimals): "0.005", "1.0"
formatUnits(amount, decimals) ==
    LET padded == Zeros(decimals + 1 - Len(amount)) \o amount
        cut    == Len(padded) - decimals
        frac   == StripTrailingZeros(SubSeq(padded, cut + 1, Len(padded)))
    IN  [decimal |-> TRUE, int |-> SubSeq(padded, 1, cut),
         frac |-> IF frac = << >> THEN <<0>> ELSE frac]

\* parseFloat(text)
parseFloat(text) ==
    [int |-> StripLeadingZeros(text.int), frac |-> StripTrailingZeros(text.frac)]

\* ethers.utils.parseEther(text)
parseEther(text) == parseUnits(text, 18)

\* The three conversion lines of handleNativeTransfer with the target
\* precision as a parameter (the code fixes it to 18 by parseEther):
\*   sourceAmount = parseUnits(text, fromDecimals)
\*   sourceNumber = parseFloat(formatUnits(sourceAmount, fromDecimals))
\*   targetAmount = parseUnits(sourceNumber.toString(), toDecimals)
convertAmount(text, fromDecimals, toDecimals) ==
    LET sourceAmount == parseUnits(text, fromDecimals)
    IN  IF sourceAmount = Throws THEN Throws
        ELSE parseUnits(numberToString(parseFloat(formatUnits(sourceAmount, fromDecimals))),
                        toDecimals)

\* targetAmount of handleNativeTransfer for activity.value = v
nativeTargetAmount(v, decimals) == convertAmount(valueToString(v), decimals, 18)

\* variant: the token amount is scaled to 18 decimals like a native payout
tokenTransferAmountRescaled(v, decimals) == parseUnits(valueToString(v), 18)

\* the amount handleTokenTransfer passes to transfer()
tokenTransferAmount(v, decimals) == parseUnits(valueToString(v), decimals)

\* ------------------------------------------------------------- registry
\* Which handler is deployed, and the one environment variable whose absence
\* the code tests for (TokenConfig.targetAddress of USDT).
Deployments ==
    { [handler |-> "current", USDT_BITLAYER |-> USDT_BITLAYER_ADDRESS],
      [handler |-> "current", USDT_BITLAYER |-> Undefined],
      [handler |-> "legacy",  USDT_BITLAYER |-> USDT_BITLAYER_ADDRESS] }

\* Object.values(TOKENS), in insertion order
TOKENS(dep) ==
    << [symbol |-> "WBTC", sourceAddress |-> WBTC_ARBITRUM_ADDRESS,
        targetAddress |-> Undefined, decimals |-> 8, isNative |-> TRUE],
       [symbol |-> "USDT", sourceAddress |-> USDT_ARBITRUM_ADDRESS,
        targetAddress |-> dep.USDT_BITLAYER, decimals |-> 6, isNative |-> FALSE] >>

NoToken == [symbol |-> "none", sourceAddress |-> Undefined,
            targetAddress |-> Undefined, decimals |-> 0, isNative |-> FALSE]

\* rawContract?.address.toLowerCase() === token.sourceAddress.toLowerCase()
\* (a missing rawContract gives undefined, which equals no string)
MatchesToken(activity, token) ==
    /\ activity.category = "token"
    /\ activity.rawContract # Undefined
    /\ toLowerCase(activity.rawContract) = toLowerCase(token.sourceAddress)

\* Object.values(TOKENS).find(...): the first matching entry, NoToken if none
FindToken(activity, dep) ==
    LET toks == TOKENS(dep)
        hits == {i \in DOMAIN toks : MatchesToken(activity, toks[i])}
    IN  IF hits = {} THEN NoToken
        ELSE toks[CHOOSE i \in hits : \A j \in hits : i <= j]

\* legacy handler: if (WBTC) {...} else if (same WBTC condition) {USDT...} else skip.
\* The second branch repeats the first condition, so it is never taken.
LegacyFindToken(activity, dep) ==
    LET wbtc == TOKENS(dep)[1]
    IN  IF MatchesToken(activity, wbtc) THEN wbtc
        ELSE IF MatchesToken(activity, wbtc) THEN TOKENS(dep)[2]
        ELSE NoToken

ResolveToken(activity, dep) ==
    IF dep.handler = "legacy" THEN LegacyFindToken(activity, dep)
    ELSE FindToken(activity, dep)

\* ---------------------------------------------------------------- inputs
USER_ADDRESS  == <<"1", "c", "E">>
OTHER_ADDRESS == <<"7", "7", "b">>
Hashes == {"h1", "h2"}

\* a WBTC transfer to the bridge wallet, addresses in a different letter case
WbtcTransfer(h) ==
    [fromAddress |-> USER_ADDRESS, toAddress |-> <<"9", "a", "D">>, value |-> 500000,
     category |-> "token", hash |-> h, rawContract |-> <<"2", "F", "b">>]

\* a USDT transfer to the bridge wallet
UsdtTransfer(h) ==
    [fromAddress |-> USER_ADDRESS, toAddress |-> BRIDGE_WALLET_ADDRESS, value |-> 150000000,
     category |-> "token", hash |-> h, rawContract |-> <<"f", "d", "0">>]

\* a WBTC transfer of one satoshi: value.toString() is "1e-8"
DustTransfer(h) ==
    [fromAddress |-> USER_ADDRESS, toAddress |-> BRIDGE_WALLET_ADDRESS, value |-> 1,
     category |-> "token", hash |-> h, rawContract |-> WBTC_ARBITRUM_ADDRESS]

\* a WBTC transfer to somebody else
ForeignTransfer(h) ==
    [fromAddress |-> USER_ADDRESS, toAddress |-> OTHER_ADDRESS, value |-> 500000,
     category |-> "token", hash |-> h, rawContract |-> WBTC_ARBITRUM_ADDRESS]

\* native ETH sent to the bridge wallet: category "external", no rawContract
EtherTransfer(h) ==
    [fromAddress |-> USER_ADDRESS, toAddress |-> BRIDGE_WALLET_ADDRESS, value |-> 500000,
     category |-> "external", hash |-> h, rawContract |-> Undefined]

\* a malformed event: no toAddress
MalformedEvent(h) ==
    [fromAddress |-> USER_ADDRESS, toAddress |-> Undefined, value |-> 500000,
     category |-> "token", hash |-> h, rawContract |-> WBTC_ARBITRUM_ADDRESS]

\* a WBTC transfer whose value is no non-negative decimal number
BadAmountTransfer(h) ==
    [fromAddress |-> USER_ADDRESS, toAddress |-> BRIDGE_WALLET_ADDRESS, value |-> NotANumber,
     category |-> "token", hash |-> h, rawContract |-> WBTC_ARBITRUM_ADDRESS]

\* Activities one delivery can carry (every case the dispatcher distinguishes).
Activities ==
    { WbtcTransfer("h1"), WbtcTransfer("h2"), UsdtTransfer("h1"), DustTransfer("h1"),
      ForeignTransfer("h1"), EtherTransfer("h2"), MalformedEvent("h2"),
      BadAmountTransfer("h2") }

\* Activities of concurrent deliveries: transfers the dispatcher accepts.
RetriedActivities ==
    { WbtcTransfer("h1"), DustTransfer("h1"), UsdtTransfer("h2") }

BatchesOf(S) == UNION {[1..n -> S] : n \in 0..MaxBatchLen}

\* ----------------------------------------------------------------- state
VARIABLES
    deployment,     \* which handler runs, and its environment
    processedTxs,   \* const processedTxs = new Set<string>()
    batch,          \* batch[r]: webhookData.event.activity of delivery r
    idx,            \* idx[r]: position of the for-of loop of delivery r
    pc,             \* pc[r]: "idle" | "loop" | "send" | "wait" | "done"
    resp,           \* resp[r]: "none" | "success" | "error"   (ctx.body / ctx.status)
    log,            \* log[r]: what happened to each activity handled so far
    clears,         \* history: number of firings of the hourly timer
    conversion,     \* one amount and what the payout handlers made of it
    selectedToken,      \* monitor: TOKENS[isWBTC ? 'WBTC' : 'USDT']
    arbitrumTimestamp,  \* monitor: timestamp of the source event's block
    lastCheckedBlock,   \* monitor: let lastCheckedBlock
    attempts,           \* monitor: let attempts
    checkInterval,      \* monitor: the interval is registered (not cleared)
    ticks,              \* monitor: the ticks in flight
    reports,            \* monitor: outcomes shown to the user, in order
    firings,            \* history: number of firings of the interval
    failures,           \* history: number of ticks that ended in the catch block
    txHash,             \* monitor: setTxHash(txHash), the source transfer watched
    chain,              \* which transactions the destination blocks hold
    fetched,            \* history: fetched[h], getBlock(h) calls of native scans
    call,               \* one call through withRetry
    submission,         \* executor: one payout from its submission to its return
    monitors            \* two monitors of the same wallet, each with its closure

dispatcherVars == <<deployment, processedTxs, batch, idx, pc, resp, log, clears>>
conversionVars == <<conversion>>
monitorVars == <<selectedToken, arbitrumTimestamp, lastCheckedBlock, attempts,
                 checkInterval, ticks, reports, firings, failures, txHash, chain,
                 fetched>>
wrapperVars == <<call>>
vars == <<dispatcherVars, conversionVars, monitorVars, wrapperVars, submission, monitors>>

\* results of one activity
Skips    == {"skip_processed", "skip_wallet", "skip_token"}
InFlight == {"sending", "waiting"}
Failures == {"fail_unconfigured", "fail_parse", "fail_send", "fail_revert"}
\* results for which sendTransaction / contract.transfer was called
Submitted == {"sending", "waiting", "ok", "fail_send", "fail_revert"}

NoPayout == [mode |-> "none", to |-> Undefined, contract |-> Undefined, amount |-> NoAmount]

\* no handler has run on the amount
NotRun == [result |-> "none", mode |-> "none", to |-> Undefined, contract |-> Undefined,
           amount |-> NoAmount]

NoConversion == [value |-> 0, decimals |-> 0, native |-> NotRun, token |-> NotRun,
                 forward |-> NoAmount, back |-> NoAmount]

InitDispatcher ==
    /\ deployment \in Deployments
    /\ processedTxs = {}
    /\ batch = [r \in Requests |-> << >>]
    /\ idx = [r \in Requests |-> 1]
    /\ pc = [r \in Requests |-> "idle"]
    /\ resp = [r \in Requests |-> "none"]
    /\ log = [r \in Requests |-> << >>]
    /\ clears = 0

\* the monitor does not exist (the dispatcher is looked at on its own)
IdleMonitor ==
    /\ selectedToken = [symbol |-> "WBTC", decimals |-> 8, isNative |-> TRUE]
    /\ arbitrumTimestamp = 0
    /\ lastCheckedBlock = 0
    /\ attempts = 0
    /\ checkInterval = FALSE
    /\ ticks = << >>
    /\ reports = << >>
    /\ firings = 0
    /\ failures = 0
    /\ txHash = ""
    /\ chain = "plain"
    /\ fetched = [h \in 1..MaxHeight |-> 0]

\* withRetry has not been called
NoCall == [pc |-> "none"]

\* no payout has been handed to a payout handler (handled: history, the
\* number of activities handed to a payout handler so far)
NoSubmission ==
    [pc |-> "none", hash |-> "", mode |-> "none", to |-> Undefined, value |-> NoAmount,
     maxPriorityFeePerGas |-> Undefined, maxFeePerGas |-> Undefined,
     sends |-> 0, error |-> 0, confirmations |-> 0, success |-> FALSE, handled |-> 0]

\* no monitor has been created
\* (together: history, another monitor was awaiting when this one started)
NoMonitor ==
    [state |-> "none", token |-> [symbol |-> "WBTC", decimals |-> 8, isNative |-> TRUE],
     arbitrumTimestamp |-> 0, lastCheckedBlock |-> 0,
     attempts |-> 0, matchingTx |-> << >>, together |-> FALSE]

Init ==
    /\ InitDispatcher
    /\ conversion = NoConversion
    /\ IdleMonitor
    /\ call = NoCall
    /\ submission = NoSubmission
    /\ monitors = [m \in 1..2 |-> NoMonitor]

\* ------------------------------------------------------ idempotency guard
\* variant: the skip-processed check is missing
hasNever(set, h) == FALSE

\* processedTxs.has(hash)
has(set, h) == h \in set

\* variant: the hash is not recorded before the payout
addNothing(set, h) == set

\* processedTxs.add(hash)
add(set, h) == set \cup {h}

\* variant: a failed payout leaves its hash in the set
deleteNothing(set, h) == set

\* processedTxs.delete(hash)
delete(set, h) == set \ {h}

\* ------------------------------------------------------------- dispatcher
\* variant: the bridge-wallet check is missing
FilterWithoutWalletCheck(activity, set, dep) ==
    IF has(set, activity.hash) THEN "skip_processed"
    ELSE IF activity.toAddress = Undefined THEN "threw"
    ELSE IF ResolveToken(activity, dep) = NoToken THEN "skip_token"
    ELSE "accept"

\* The filters of the loop body, in the order the code applies them.
\* "threw": toAddress.toLowerCase() on a missing toAddress raises a TypeError,
\* caught by the handler's outer catch.
Filter(activity, set, dep) ==
    IF has(set, activity.hash) THEN "skip_processed"
    ELSE IF activity.toAddress = Undefined THEN "threw"
    ELSE IF toLowerCase(activity.toAddress) # toLowerCase(BRIDGE_WALLET_ADDRESS) THEN "skip_wallet"
    ELSE IF ResolveToken(activity, dep) = NoToken THEN "skip_token"
    ELSE "accept"

\* variant: the native payout goes to the event's receiver
handleNativeTransferToReceiver(activity, token) ==
    LET targetAmount == nativeTargetAmount(activity.value, token.decimals)
    IN  IF targetAmount = Throws
        THEN [result |-> "fail_parse", mode |-> "native", to |-> Undefined,
              contract |-> Undefined, amount |-> NoAmount]
        ELSE [result |-> "sending", mode |-> "native", to |-> activity.toAddress,
              contract |-> Undefined, amount |-> targetAmount]

\* handleNativeTransfer up to its first await: the amount is parsed inside the
\* try block, then wallet.sendTransaction({to: activity.fromAddress, ...})
handleNativeTransfer(activity, token) ==
    LET targetAmount == nativeTargetAmount(activity.value, token.decimals)
    IN  IF targetAmount = Throws
        THEN [result |-> "fail_parse", mode |-> "native", to |-> Undefined,
              contract |-> Undefined, amount |-> NoAmount]
        ELSE [result |-> "sending", mode |-> "native", to |-> activity.fromAddress,
              contract |-> Undefined, amount |-> targetAmount]

\* variant: the targetAddress test is missing
handleTokenTransferUnchecked(activity, token) ==
    LET amount == tokenTransferAmount(activity.value, token.decimals)
    IN  IF amount = Throws
        THEN [result |-> "fail_parse", mode |-> "contract", to |-> Undefined,
              contract |-> token.targetAddress, amount |-> NoAmount]
        ELSE [result |-> "sending", mode |-> "contract", to |-> activity.fromAddress,
              contract |-> token.targetAddress, amount |-> amount]

\* handleTokenTransfer up to its first await: the targetAddress test, then
\* tokenContract.transfer(activity.fromAddress, parseUnits(...), ...)
handleTokenTransfer(activity, token) ==
    LET amount == tokenTransferAmount(activity.value, token.decimals)
    IN  IF token.targetAddress = Undefined
        THEN [result |-> "fail_unconfigured", mode |-> "contract", to |-> Undefined,
              contract |-> Undefined, amount |-> NoAmount]
        ELSE IF amount = Throws
        THEN [result |-> "fail_parse", mode |-> "contract", to |-> Undefined,
              contract |-> token.targetAddress, amount |-> NoAmount]
        ELSE [result |-> "sending", mode |-> "contract", to |-> activity.fromAddress,
              contract |-> token.targetAddress, amount |-> amount]

\* sourceToken.isNative ? handleNativeTransfer(...) : handleTokenTransfer(...)
StartPayout(activity, token) ==
    IF token.isNative THEN handleNativeTransfer(activity, token)
    ELSE handleTokenTransfer(activity, token)

\* What the log keeps of one handled activity. claimed: the hash was in
\* processedTxs at some point of the handling of this activity.
Entry(activity, result, payout) ==
    [hash |-> activity.hash, result |-> result, mode |-> payout.mode,
     to |-> payout.to, contract |-> payout.contract, amount |-> payout.amount,
     claimed |-> FALSE]

\* the entry of an activity that passed the filters: processedTxs.add(hash)
\* runs before the payout handler is called
ClaimedEntry(activity, result, payout) ==
    [Entry(activity, result, payout) EXCEPT
        !.claimed = has(add(processedTxs, activity.hash), activity.hash)]

\* variant: the payout is not awaited before the next iteration
AtLoopHeadOrAwaiting(r) == pc[r] \in {"loop", "send", "wait"}

\* The loop may start its next iteration (the previous await has returned).
AtLoopHead(r) == pc[r] = "loop"

\* variant: the handler answers after the first activity it finishes
ContinueAnswersEarly(r) ==
    /\ idx' = [idx EXCEPT ![r] = @ + 1]
    /\ pc' = [pc EXCEPT ![r] = "done"]
    /\ resp' = [resp EXCEPT ![r] = "success"]

\* The loop moves to the next activity; after the last one the handler
\* answers { success: true }.
Continue(r) ==
    /\ idx' = [idx EXCEPT ![r] = @ + 1]
    /\ pc' = [pc EXCEPT ![r] = IF idx[r] >= Len(batch[r]) THEN "done" ELSE "loop"]
    /\ resp' = [resp EXCEPT ![r] = IF idx[r] >= Len(batch[r]) THEN "success" ELSE @]

\* variant: the exception is swallowed and the loop goes on
AnswerErrorAndGoOn(r) ==
    /\ Continue(r)
    /\ UNCHANGED processedTxs

\* The exception leaves the loop: catch (error) { ctx.status = 500;
\* ctx.body = { error: 'Internal server error' } }
AnswerError(r) ==
    /\ pc' = [pc EXCEPT ![r] = "done"]
    /\ resp' = [resp EXCEPT ![r] = "error"]
    /\ UNCHANGED <<processedTxs, idx>>

\* number of activities received so far by deliveries 1..n
RECURSIVE Received(_)
Received(n) == IF n = 0 THEN 0 ELSE Len(batch[n]) + Received(n - 1)

\* A webhook delivery arrives (deliveries are numbered in arrival order).
Receive(r, acts) ==
    /\ pc[r] = "idle"
    /\ Received(NumRequests) + Len(acts) <= MaxActivities
    /\ \A q \in Requests : q < r => pc[q] # "idle"
    /\ batch' = [batch EXCEPT ![r] = acts]
    /\ pc' = [pc EXCEPT ![r] = IF acts = << >> THEN "done" ELSE "loop"]
    /\ resp' = [resp EXCEPT ![r] = IF acts = << >> THEN "success" ELSE @]
    /\ UNCHANGED <<deployment, processedTxs, idx, log, clears>>

\* One iteration of `for (const activity of activities)` up to its await.
Dispatch(r) ==
    /\ AtLoopHead(r)
    /\ idx[r] <= Len(batch[r])
    /\ LET activity == batch[r][idx[r]]
           verdict  == Filter(activity, processedTxs, deployment)
           payout   == StartPayout(activity, ResolveToken(activity, deployment))
       IN  \/ /\ verdict \in Skips
              /\ log' = [log EXCEPT ![r] = Append(@, Entry(activity, verdict, NoPayout))]
              /\ Continue(r)
              /\ UNCHANGED processedTxs
           \/ /\ verdict = "threw"
              /\ log' = [log EXCEPT ![r] = Append(@, Entry(activity, verdict, NoPayout))]
              /\ AnswerError(r)
           \/ /\ verdict = "accept"
              /\ payout.result \in Failures
              \* claimed, failed before any await, released when the await returns
              /\ processedTxs' = delete(add(processedTxs, activity.hash), activity.hash)
              /\ log' = [log EXCEPT ![r] = Append(@, ClaimedEntry(activity, payout.result, payout))]
              /\ Continue(r)
           \/ /\ verdict = "accept"
              /\ payout.result = "sending"
              /\ processedTxs' = add(processedTxs, activity.hash)
              /\ log' = [log EXCEPT ![r] = Append(@, ClaimedEntry(activity, "sending", payout))]
              /\ pc' = [pc EXCEPT ![r] = "send"]
              /\ UNCHANGED <<idx, resp>>
    /\ UNCHANGED <<deployment, batch, clears>>

SetResult(r, result) ==
    log' = [log EXCEPT ![r][Len(log[r])].result = result]

\* await wallet.sendTransaction(...) / tokenContract.transfer(...) returns or throws
SendSettles(r, ok) ==
    /\ pc[r] = "send"
    /\ IF ok
       THEN /\ SetResult(r, "waiting")
            /\ pc' = [pc EXCEPT ![r] = "wait"]
            /\ UNCHANGED <<processedTxs, idx, resp>>
       ELSE /\ SetResult(r, "fail_send")
            /\ processedTxs' = delete(processedTxs, batch[r][idx[r]].hash)
            /\ Continue(r)
    /\ UNCHANGED <<deployment, batch, clears>>

\* await tx.wait(1) returns, or throws on a reverted receipt
WaitSettles(r, ok) ==
    /\ pc[r] = "wait"
    /\ IF ok
       THEN /\ SetResult(r, "ok")
            /\ UNCHANGED processedTxs
       ELSE /\ SetResult(r, "fail_revert")
            /\ processedTxs' = delete(processedTxs, batch[r][idx[r]].hash)
    /\ Continue(r)
    /\ UNCHANGED <<deployment, batch, clears>>

\* setInterval(() => processedTxs.clear(), 1000 * 60 * 60)
ClearCache ==
    /\ clears < MaxClears
    /\ processedTxs' = {}
    /\ clears' = clears + 1
    /\ UNCHANGED <<deployment, batch, idx, pc, resp, log>>

\* what every delivery does once received, and the timer
Step ==
    \/ \E r \in Requests : Dispatch(r)
    \/ \E r \in Requests : \E ok \in BOOLEAN : SendSettles(r, ok)
    \/ \E r \in Requests : \E ok \in BOOLEAN : WaitSettles(r, ok)
    \/ ClearCache

\* Concurrent deliveries of transfers the dispatcher accepts.
Next ==
    \/ /\ \E r \in Requests : \E acts \in BatchesOf(RetriedActivities) : Receive(r, acts)
       /\ UNCHANGED <<conversionVars, monitorVars, wrapperVars, submission, monitors>>
    \/ /\ Step
       /\ UNCHANGED <<conversionVars, monitorVars, wrapperVars, submission, monitors>>

Spec == Init /\ [][Next]_vars

\* One delivery carrying any mix of activities.
NextBatch ==
    \/ /\ \E acts \in BatchesOf(Activities) : Receive(1, acts)
       /\ UNCHANGED <<conversionVars, monitorVars, wrapperVars, submission, monitors>>
    \/ /\ Step
       /\ UNCHANGED <<conversionVars, monitorVars, wrapperVars, submission, monitors>>

SpecBatch == Init /\ [][NextBatch]_vars

\* ------------------------------------------------ the amount conversions
\* The payout handlers and the monitor's expected amount, applied to one
\* amount each: value (in units of 1e-8) of an asset with `decimals` decimals.
AmountValues ==
    {m * Pow10(k) : m \in 0..MaxMantissa, k \in 0..ValueScale}
        \cup {12345678, 100000001, 150000000, 2099999999}

\* decimals of the registered assets (WBTC 8, USDT 6)
Precisions == {TOKENS(d)[i].decimals : d \in Deployments, i \in 1..2}

\* a decimal string as the user types it: fromAmount of the bridge form
decimalText(v) == [decimal |-> TRUE, int |-> NumberOf(v).int, frac |-> NumberOf(v).frac]

\* expectedAmount of monitorNativeTransfer: fromAmount in 18-decimal base units
expectedAmount(text, decimals) == convertAmount(text, decimals, 18)

\* the same three lines from 18 decimals back to the asset's decimals
sourceAmountOf(targetAmount, decimals) ==
    IF targetAmount = Throws THEN Throws
    ELSE convertAmount(formatUnits(targetAmount, 18), 18, decimals)

\* no webhook delivery arrives (the handlers are looked at on their own)
IdleDispatcher ==
    /\ deployment = [handler |-> "current", USDT_BITLAYER |-> USDT_BITLAYER_ADDRESS]
    /\ processedTxs = {}
    /\ batch = [r \in Requests |-> << >>]
    /\ idx = [r \in Requests |-> 1]
    /\ pc = [r \in Requests |-> "idle"]
    /\ resp = [r \in Requests |-> "none"]
    /\ log = [r \in Requests |-> << >>]
    /\ clears = 0

InitConversion ==
    /\ IdleDispatcher
    /\ IdleMonitor
    /\ call = NoCall
    /\ submission = NoSubmission
    /\ monitors = [m \in 1..2 |-> NoMonitor]
    /\ \E v \in AmountValues : \E d \in Precisions :
          conversion = [NoConversion EXCEPT !.value = v, !.decimals = d]

\* handleNativeTransfer on a transfer of conversion.value
NativePayout ==
    /\ conversion.native = NotRun
    /\ conversion' = [conversion EXCEPT !.native =
          handleNativeTransfer([WbtcTransfer("h1") EXCEPT !.value = conversion.value],
                               [TOKENS(deployment)[1] EXCEPT !.decimals = conversion.decimals])]
    /\ UNCHANGED <<dispatcherVars, monitorVars, wrapperVars, submission, monitors>>

\* handleTokenTransfer on a transfer of conversion.value
TokenPayout ==
    /\ conversion.token = NotRun
    /\ conversion' = [conversion EXCEPT !.token =
          handleTokenTransfer([UsdtTransfer("h1") EXCEPT !.value = conversion.value],
                              [TOKENS(deployment)[2] EXCEPT !.decimals = conversion.decimals])]
    /\ UNCHANGED <<dispatcherVars, monitorVars, wrapperVars, submission, monitors>>

\* the monitor computes the amount it expects on the destination chain
ExpectAmount ==
    /\ conversion.forward = NoAmount
    /\ conversion' = [conversion EXCEPT !.forward =
          expectedAmount(decimalText(conversion.value), conversion.decimals)]
    /\ UNCHANGED <<dispatcherVars, monitorVars, wrapperVars, submission, monitors>>

\* the expected amount converted back to the asset's decimals
ConvertBack ==
    /\ conversion.forward # NoAmount
    /\ conversion.back = NoAmount
    /\ conversion' = [conversion EXCEPT !.back =
          sourceAmountOf(conversion.forward, conversion.decimals)]
    /\ UNCHANGED <<dispatcherVars, monitorVars, wrapperVars, submission, monitors>>

NextConversion ==
    \/ NativePayout
    \/ TokenPayout
    \/ ExpectAmount
    \/ ConvertBack

SpecConversion == InitConversion /\ [][NextConversion]_vars

\* ======================================================================
\* Confirmation monitor (frontend, Bridge.tsx: monitorBitlayerTransaction)
\* ======================================================================
\* The destination chain as the read interface shows it.  The chain is fixed:
\* the block of every height is the same whenever it is read; what varies is
\* the head height a getBlockNumber call returns (public RPC nodes are not
\* in step with each other).
Heights == 1..MaxHeight

\* block.timestamp of the block at height h
Timestamp(h) == 2 * h

\* the amount the user bridges: fromAmount = "0.005"
FromAmount == 500000
fromAmount == decimalText(FromAmount)

\* process.env.REACT_APP_BRIDGE_WALLET_ADDRESS and the connected wallet
BRIDGE_WALLET == BRIDGE_WALLET_ADDRESS
walletAddress == USER_ADDRESS

\* TOKENS of the frontend
SelectedTokens ==
    { [symbol |-> "WBTC", decimals |-> 8, isNative |-> TRUE],
      [symbol |-> "USDT", decimals |-> 6, isNative |-> FALSE] }

NoTx == [hash |-> << >>, from |-> Undefined, to |-> Undefined, value |-> NoAmount,
         blockNumber |-> 0]

\* a transaction of somebody else to the user's wallet
UnrelatedTransaction(h) ==
    [hash |-> <<h, 1>>, from |-> OTHER_ADDRESS, to |-> walletAddress,
     value |-> nativeTargetAmount(FromAmount, 8), blockNumber |-> h]

\* a native transfer with the parties and the amount of the expected payout
PayoutTransaction(h) ==
    [hash |-> <<h, 2>>, from |-> <<"9", "a", "D">>, to |-> walletAddress,
     value |-> nativeTargetAmount(FromAmount, 8), blockNumber |-> h]

\* a Transfer log of the destination token contract with the parties and the
\* amount of the expected payout
PayoutTransfer(h) ==
    [hash |-> <<h, 3>>, from |-> <<"9", "a", "D">>, to |-> walletAddress,
     value |-> tokenTransferAmount(FromAmount, 6), blockNumber |-> h]

\* a payout of the bridge wallet to the same user for another transfer, of
\* twice the amount
OtherPayoutTransaction(h) ==
    [hash |-> <<h, 4>>, from |-> <<"9", "a", "D">>, to |-> walletAddress,
     value |-> nativeTargetAmount(2 * FromAmount, 8), blockNumber |-> h]

\* the Transfer log of such a payout
OtherPayoutTransfer(h) ==
    [hash |-> <<h, 5>>, from |-> <<"9", "a", "D">>, to |-> walletAddress,
     value |-> tokenTransferAmount(2 * FromAmount, 6), blockNumber |-> h]

\* what the blocks hold: on the plain chain the user receives a transfer of
\* somebody else next to the payout, on the busy chain a second payout of the
\* bridge wallet
Chains == {"plain", "busy"}

\* The blocks of the destination chain.  Every block carries a transfer that
\* matches the payout in parties and amount, so only its timestamp tells it
\* from the payout.
Blocks ==
    [c \in Chains |->
        [h \in Heights |->
            [number |-> h, timestamp |-> Timestamp(h),
             transactions |->
                IF c = "plain"
                THEN <<UnrelatedTransaction(h), PayoutTransaction(h)>>
                ELSE <<OtherPayoutTransaction(h), PayoutTransaction(h)>>,
             logs |->
                IF c = "plain"
                THEN <<PayoutTransfer(h)>>
                ELSE <<OtherPayoutTransfer(h), PayoutTransfer(h)>>]]]

\* provider.getBlock(h)
getBlock(h) == Blocks[chain][h]

\* what the two scans compare a transfer's value with, for each token:
\* expectedAmount of monitorNativeTransfer and parseUnits(fromAmount,
\* token.decimals) of monitorTokenTransfer
ExpectedAmounts ==
    [t \in SelectedTokens |->
        [native |-> expectedAmount(fromAmount, t.decimals),
         token  |-> parseUnits(fromAmount, t.decimals)]]

\* arbitrumTimestamp: the source event is as old as block 2 of the destination
\* chain, a little younger, or as old as its last block
SourceTimestamps == {Timestamp(2), Timestamp(2) + 1, Timestamp(MaxHeight)}

\* variant: the timestamp test accepts an equal timestamp
IsAfterOrAt(block, sourceTimestamp) == block.timestamp >= sourceTimestamp

\* block.timestamp > arbitrumTimestamp
IsAfter(block, sourceTimestamp) == block.timestamp > sourceTimestamp

\* variant: the sender is not looked at
NativeCandidateAnySender(tx, block, sourceTimestamp) ==
    /\ tx.to # Undefined
    /\ toLowerCase(tx.to) = toLowerCase(walletAddress)
    /\ tx.value # <<0>>
    /\ IsAfter(block, sourceTimestamp)

\* the predicate of txs.find(...) in monitorNativeTransfer
NativeCandidate(tx, block, sourceTimestamp) ==
    /\ tx.to # Undefined
    /\ toLowerCase(tx.to) = toLowerCase(walletAddress)
    /\ tx.from # Undefined
    /\ toLowerCase(tx.from) = toLowerCase(BRIDGE_WALLET)
    /\ tx.value # <<0>>
    /\ IsAfter(block, sourceTimestamp)

\* Array.prototype.find: the first element of txs that is a candidate
RECURSIVE FindCandidate(_, _, _)
FindCandidate(txs, block, sourceTimestamp) ==
    IF txs = << >> THEN NoTx
    ELSE IF NativeCandidate(Head(txs), block, sourceTimestamp) THEN Head(txs)
    ELSE FindCandidate(Tail(txs), block, sourceTimestamp)

\* const batchSize = 3
batchSize == 3

\* The loop over the transactions of one block in batches: the candidate of
\* a batch is returned when its value equals the expected amount.
RECURSIVE MatchInBlock(_, _, _, _)
MatchInBlock(block, i, token, sourceTimestamp) ==
    IF i > Len(block.transactions) THEN NoTx
    ELSE LET last == IF i + batchSize - 1 < Len(block.transactions)
                     THEN i + batchSize - 1 ELSE Len(block.transactions)
             matchingTx == FindCandidate(SubSeq(block.transactions, i, last),
                                         block, sourceTimestamp)
         IN  IF /\ matchingTx # NoTx
                /\ matchingTx.value = ExpectedAmounts[token].native
             THEN matchingTx
             ELSE MatchInBlock(block, i + batchSize, token, sourceTimestamp)

\* the loop over the blocks blockNum..currentBlock, lowest first
RECURSIVE ScanBlocks(_, _, _, _)
ScanBlocks(blockNum, currentBlock, token, sourceTimestamp) ==
    IF blockNum > currentBlock THEN NoTx
    ELSE LET found == MatchInBlock(getBlock(blockNum), 1, token, sourceTimestamp)
         IN  IF found # NoTx THEN found
             ELSE ScanBlocks(blockNum + 1, currentBlock, token, sourceTimestamp)

\* blockNum += 5: the blocks one Promise.all of getBlock calls asks for
blockBatchSize == 5

\* endBlock of the batch of blocks that holds height h, in a scan of the
\* heights lastChecked + 1 .. currentBlock
endBlock(currentBlock, lastChecked, h) ==
    LET blockNum == lastChecked + 1
                      + blockBatchSize * ((h - lastChecked - 1) \div blockBatchSize)
    IN  IF blockNum + blockBatchSize - 1 < currentBlock
        THEN blockNum + blockBatchSize - 1 ELSE currentBlock

\* monitorNativeTransfer(config, currentBlock, lastCheckedBlock, initialBalance)
monitorNativeTransfer(token, sourceTimestamp, currentBlock, lastChecked) ==
    IF currentBlock = 0 \/ lastChecked = 0 THEN NoTx
    ELSE ScanBlocks(lastChecked + 1, currentBlock, token, sourceTimestamp)

\* const CHUNK_SIZE (1000 in the code)
CHUNK_SIZE == 1

\* tokenContract.queryFilter(filter, fromBlock, toBlock): the Transfer logs
\* from the bridge wallet to the user's wallet in the blocks fromBlock..toBlock
RECURSIVE queryFilter(_, _)
queryFilter(fromBlock, toBlock) ==
    IF fromBlock > toBlock THEN << >>
    ELSE IF fromBlock < 1 THEN queryFilter(1, toBlock)
    ELSE SelectSeq(getBlock(fromBlock).logs,
                   LAMBDA e : /\ toLowerCase(e.from) = toLowerCase(BRIDGE_WALLET)
                              /\ toLowerCase(e.to) = toLowerCase(walletAddress))
             \o queryFilter(fromBlock + 1, toBlock)

\* the test of one event in monitorTokenTransfer
TokenMatch(event, token, sourceTimestamp) ==
    /\ event.value = ExpectedAmounts[token].token
    /\ toLowerCase(event.to) = toLowerCase(walletAddress)
    /\ toLowerCase(event.from) = toLowerCase(BRIDGE_WALLET)
    /\ IsAfter(getBlock(event.blockNumber), sourceTimestamp)

\* for (const event of events): the first event that passes the test
RECURSIVE FirstMatch(_, _, _)
FirstMatch(events, token, sourceTimestamp) ==
    IF events = << >> THEN NoTx
    ELSE IF TokenMatch(Head(events), token, sourceTimestamp) THEN Head(events)
    ELSE FirstMatch(Tail(events), token, sourceTimestamp)

\* Math.max(lastCheckedBlock + 1, currentBlock - CHUNK_SIZE)
fromBlock(currentBlock, lastChecked) ==
    IF lastChecked + 1 > currentBlock - CHUNK_SIZE
    THEN lastChecked + 1 ELSE currentBlock - CHUNK_SIZE

\* monitorTokenTransfer(config, currentBlock, lastCheckedBlock)
monitorTokenTransfer(token, sourceTimestamp, currentBlock, lastChecked) ==
    FirstMatch(queryFilter(fromBlock(currentBlock, lastChecked), currentBlock),
               token, sourceTimestamp)

\* ------------------------------------------------------ the polling loop
\* A step of a tick is the code between two awaits on the network; ticks of
\* one monitor share lastCheckedBlock and attempts through the closure.
\* setInterval starts a tick every second whether or not the previous one
\* has returned, so several ticks can be in flight.

\* The state when setInterval has been called: the baseline head was read
\* when the monitor was created (the chain was at height 1), attempts = 0.
InitMonitor ==
    /\ IdleDispatcher
    /\ conversion = NoConversion
    /\ selectedToken \in SelectedTokens
    /\ arbitrumTimestamp \in SourceTimestamps
    /\ lastCheckedBlock = 1
    /\ attempts = 0
    /\ checkInterval = TRUE
    /\ ticks = << >>
    /\ reports = << >>
    /\ firings = 0
    /\ failures = 0
    /\ txHash = "h1"
    /\ chain \in Chains
    /\ fetched = [h \in Heights |-> 0]
    /\ call = NoCall
    /\ submission = NoSubmission
    /\ monitors = [m \in 1..2 |-> NoMonitor]

RemoveAt(seq, n) == SubSeq(seq, 1, n - 1) \o SubSeq(seq, n + 1, Len(seq))

\* The ticks in flight do not know of each other and any of them can be the
\* next to resume, so they are kept as a multiset: a sequence ordered by the
\* await a tick is suspended in, its head and the cursor it took.
TickOrder(t) ==
    (IF t.pc = "head" THEN 0 ELSE IF t.pc = "balance" THEN 1 ELSE 2)
        * (MaxHeight + 1) * (MaxHeight + 1)
    + t.currentBlock * (MaxHeight + 1) + t.from

RECURSIVE Suspend(_, _)
Suspend(pending, t) ==
    IF pending = << >> THEN <<t>>
    ELSE IF TickOrder(t) <= TickOrder(Head(pending)) THEN <<t>> \o pending
    ELSE <<Head(pending)>> \o Suspend(Tail(pending), t)

\* variant: the budget counts the tick that is starting
BudgetExhaustedEarly(n) == n + 1 >= MaxAttempts

\* attempts >= maxAttempts
BudgetExhausted(n) == n >= MaxAttempts

\* variant: the counter is not incremented
SameAttempt(n) == n

\* attempts++
NextAttempt(n) == n + 1

\* an outcome shown to the user, with the number of interval firings so far
Report(outcome, tx, firing) == [outcome |-> outcome, tx |-> tx, firing |-> firing]

\* The interval fires: the budget test, attempts++, and the tick suspends in
\* `await delay(500)` followed by getBlockNumber.
Fire ==
    /\ checkInterval
    /\ BudgetExhausted(attempts) \/ Len(ticks) < MaxInFlight
    /\ firings' = IF firings > MaxAttempts THEN firings ELSE firings + 1
    /\ IF BudgetExhausted(attempts)
       THEN /\ checkInterval' = FALSE
            /\ reports' = Append(reports, Report("TimedOut", NoTx, firings'))
            /\ UNCHANGED <<attempts, ticks>>
       ELSE /\ attempts' = NextAttempt(attempts)
            /\ ticks' = Suspend(ticks, [pc |-> "head", currentBlock |-> 0, from |-> 0])
            /\ UNCHANGED <<checkInterval, reports>>
    /\ UNCHANGED <<selectedToken, arbitrumTimestamp, lastCheckedBlock, failures,
                   txHash, chain, fetched>>

\* getBlockNumber returns h.  Native mode goes on to getBalance; token mode
\* calls monitorTokenTransfer, which takes lastCheckedBlock as it is now.
HeadReturns(n, h) ==
    /\ n \in DOMAIN ticks
    /\ ticks[n].pc = "head"
    /\ ticks' = Suspend(RemoveAt(ticks, n),
          IF selectedToken.isNative
          THEN [pc |-> "balance", currentBlock |-> h, from |-> 0]
          ELSE [pc |-> "scan", currentBlock |-> h, from |-> lastCheckedBlock])
    /\ UNCHANGED <<selectedToken, arbitrumTimestamp, lastCheckedBlock, attempts,
                   checkInterval, reports, firings, failures, txHash, chain, fetched>>

\* getBalance returns; increased: currentBalance.gt(initialBalance).  Without
\* an increase matchingTx stays undefined and the cursor moves to currentBlock.
BalanceReturns(n, increased) ==
    /\ n \in DOMAIN ticks
    /\ ticks[n].pc = "balance"
    /\ IF increased
       THEN /\ ticks' = Suspend(RemoveAt(ticks, n),
                                [ticks[n] EXCEPT !.pc = "scan", !.from = lastCheckedBlock])
            /\ UNCHANGED lastCheckedBlock
       ELSE /\ ticks' = RemoveAt(ticks, n)
            /\ lastCheckedBlock' = ticks[n].currentBlock
    /\ UNCHANGED <<selectedToken, arbitrumTimestamp, attempts, checkInterval, reports,
                   firings, failures, txHash, chain, fetched>>

\* what the scan of tick n returns
matchingTx(n) ==
    IF selectedToken.isNative
    THEN monitorNativeTransfer(selectedToken, arbitrumTimestamp,
                               ticks[n].currentBlock, ticks[n].from)
    ELSE monitorTokenTransfer(selectedToken, arbitrumTimestamp,
                              ticks[n].currentBlock, ticks[n].from)

\* the heights a native scan of tick n has to go through
ScanRange(n) ==
    IF selectedToken.isNative /\ ticks[n].currentBlock # 0 /\ ticks[n].from # 0
    THEN (ticks[n].from + 1)..ticks[n].currentBlock
    ELSE {}

\* fetched after getBlock was called for the heights of the scan of tick n up
\* to the end of the batch of blocks that holds height h
FetchedUpTo(n, h) ==
    [k \in Heights |->
        IF /\ k \in ScanRange(n)
           /\ k <= endBlock(ticks[n].currentBlock, ticks[n].from, h)
           /\ fetched[k] < 2
        THEN fetched[k] + 1 ELSE fetched[k]]

\* monitorNativeTransfer / monitorTokenTransfer returns: a match cancels the
\* interval and reports success, no match moves the cursor to currentBlock.
\* A native scan has fetched the blocks up to the batch with the match, or
\* all of them.
ScanReturns(n) ==
    /\ n \in DOMAIN ticks
    /\ ticks[n].pc = "scan"
    /\ ticks' = RemoveAt(ticks, n)
    /\ fetched' = IF ScanRange(n) = {} THEN fetched
                  ELSE IF matchingTx(n) # NoTx
                       THEN FetchedUpTo(n, matchingTx(n).blockNumber)
                       ELSE FetchedUpTo(n, ticks[n].currentBlock)
    /\ IF matchingTx(n) # NoTx
       THEN /\ checkInterval' = FALSE
            /\ reports' = Append(reports, Report("Confirmed", matchingTx(n), firings))
            /\ UNCHANGED lastCheckedBlock
       ELSE /\ lastCheckedBlock' = ticks[n].currentBlock
            /\ UNCHANGED <<checkInterval, reports>>
    /\ UNCHANGED <<selectedToken, arbitrumTimestamp, attempts, firings, failures,
                   txHash, chain>>

\* variant: the catch block moves the cursor to the head the tick has read
RpcFailsMovingCursor(n, h) ==
    /\ n \in DOMAIN ticks
    /\ IF ticks[n].pc = "scan" /\ selectedToken.isNative
       THEN /\ h \in ScanRange(n)
            /\ fetched' = FetchedUpTo(n, h)
       ELSE /\ h = 0
            /\ UNCHANGED fetched
    /\ ticks' = RemoveAt(ticks, n)
    /\ failures' = failures + 1
    /\ lastCheckedBlock' = ticks[n].currentBlock
    /\ UNCHANGED <<selectedToken, arbitrumTimestamp, attempts,
                   checkInterval, reports, firings, txHash, chain>>

\* The read the tick is waiting for fails (withRetry throws): the catch block
\* logs it and the tick ends.  In a native scan the read is a getBlock or a
\* getTransaction of the batch of blocks that holds height h, which is not
\* behind the batch the scan returns from; the blocks up to that batch have
\* been fetched.  h = 0 for every other read.
RpcFails(n, h) ==
    /\ n \in DOMAIN ticks
    /\ IF ticks[n].pc = "scan" /\ selectedToken.isNative
       THEN /\ h \in ScanRange(n)
            /\ \/ matchingTx(n) = NoTx
               \/ endBlock(ticks[n].currentBlock, ticks[n].from, h)
                     <= endBlock(ticks[n].currentBlock, ticks[n].from,
                                 matchingTx(n).blockNumber)
            /\ fetched' = FetchedUpTo(n, h)
       ELSE /\ h = 0
            /\ UNCHANGED fetched
    /\ ticks' = RemoveAt(ticks, n)
    /\ failures' = failures + 1
    /\ UNCHANGED <<selectedToken, arbitrumTimestamp, lastCheckedBlock, attempts,
                   checkInterval, reports, firings, txHash, chain>>

\* some tick in flight takes its next step
TickStep ==
    \/ \E n \in 1..MaxInFlight : \E h \in Heights : HeadReturns(n, h)
    \/ \E n \in 1..MaxInFlight : \E increased \in BOOLEAN : BalanceReturns(n, increased)
    \/ \E n \in 1..MaxInFlight : ScanReturns(n)
    \/ \E n \in 1..MaxInFlight : \E h \in 0..MaxHeight : RpcFails(n, h)

NextMonitor ==
    \/ /\ Fire
       /\ UNCHANGED <<dispatcherVars, conversionVars, wrapperVars, submission, monitors>>
    \/ /\ \E n \in 1..MaxInFlight : \E h \in Heights : HeadReturns(n, h)
       /\ UNCHANGED <<dispatcherVars, conversionVars, wrapperVars, submission, monitors>>
    \/ /\ \E n \in 1..MaxInFlight : \E increased \in BOOLEAN : BalanceReturns(n, increased)
       /\ UNCHANGED <<dispatcherVars, conversionVars, wrapperVars, submission, monitors>>
    \/ /\ \E n \in 1..MaxInFlight : ScanReturns(n)
       /\ UNCHANGED <<dispatcherVars, conversionVars, wrapperVars, submission, monitors>>
    \/ /\ \E n \in 1..MaxInFlight : \E h \in 0..MaxHeight : RpcFails(n, h)
       /\ UNCHANGED <<dispatcherVars, conversionVars, wrapperVars, submission, monitors>>

SpecMonitor == InitMonitor /\ [][NextMonitor]_vars

\* The event loop does not stop: as long as the interval is registered or a
\* read is pending, the interval fires or a read returns or fails.
SpecMonitorFair ==
    /\ InitMonitor
    /\ [][NextMonitor]_vars
    /\ WF_vars(NextMonitor)

\* The reads of the destination chain are reliable: the chain has its
\* MaxHeight blocks when the first tick fires and every getBlockNumber returns
\* that head, the payout has raised the balance of the wallet, and no read
\* fails.
NextReliable ==
    \/ /\ Fire
       /\ UNCHANGED <<dispatcherVars, conversionVars, wrapperVars, submission, monitors>>
    \/ /\ \E n \in 1..MaxInFlight : HeadReturns(n, MaxHeight)
       /\ UNCHANGED <<dispatcherVars, conversionVars, wrapperVars, submission, monitors>>
    \/ /\ \E n \in 1..MaxInFlight : BalanceReturns(n, TRUE)
       /\ UNCHANGED <<dispatcherVars, conversionVars, wrapperVars, submission, monitors>>
    \/ /\ \E n \in 1..MaxInFlight : ScanReturns(n)
       /\ UNCHANGED <<dispatcherVars, conversionVars, wrapperVars, submission, monitors>>

\* The event loop does not stop: the interval fires or a read returns.
SpecMonitorReliable ==
    /\ InitMonitor
    /\ [][NextReliable]_vars
    /\ WF_vars(NextReliable)

\* ------------------------------------------- the transfer in the frontend
\* transferWBTC / transferERC20 send the user's transfer to the bridge wallet
\* and, once it is mined, call startMonitoring(tx.hash); the backend learns
\* of the same transfer from the webhook.  Nothing goes from the backend to
\* the frontend.

\* startMonitoring(tx.hash) up to setInterval: the monitor of the transfer
\* with hash h exists, with the baseline read before the transfer was sent
StartMonitoring(h) ==
    /\ ~checkInterval
    /\ txHash = ""
    /\ txHash' = h
    /\ selectedToken' \in SelectedTokens
    /\ arbitrumTimestamp' \in SourceTimestamps
    /\ lastCheckedBlock' = 1
    /\ attempts' = 0
    /\ checkInterval' = TRUE
    /\ UNCHANGED <<ticks, reports, firings, failures, chain, fetched>>

\* The user's transfer h1 is mined: the frontend starts its monitor, the
\* backend gets a delivery and works through it, in any order.
NextBridge ==
    \/ /\ \E acts \in BatchesOf(Activities) : Receive(1, acts)
       /\ UNCHANGED <<conversionVars, monitorVars, wrapperVars, submission, monitors>>
    \/ /\ Step
       /\ UNCHANGED <<conversionVars, monitorVars, wrapperVars, submission, monitors>>
    \/ /\ StartMonitoring("h1")
       /\ UNCHANGED <<dispatcherVars, conversionVars, wrapperVars, submission, monitors>>

SpecBridge == Init /\ [][NextBridge]_vars

\* ======================================================================
\* Rate-limited RPC call wrapper (frontend, Bridge.tsx: withRetry)
\* ======================================================================
\* One call withRetry(fn, retries, delayMs) from the moment fn is invoked for
\* the first time.  A step is the code between two awaits: fn settles, or the
\* backoff delay ends and the recursive call invokes fn again.

\* retries = 5, delayMs = 1000 (2000 in the older monitor)
DefaultRetries == 5
DefaultDelayMs == 1000
OlderDelayMs == 2000

\* the budgets and initial delays a call is made with
RetryBudgets == 0..DefaultRetries
InitialDelays == {DefaultDelayMs, OlderDelayMs}

\* what fn can settle with: a value, or an error with a code
RateLimitCode == 429
ErrorCodes == {RateLimitCode, 500, 0 - 32000}
Values == {"0x1", "0x2"}
Resolved(v) == [kind |-> "ok", value |-> v, code |-> 0]
Rejected(c) == [kind |-> "error", value |-> "", code |-> c]
NotSettled == [kind |-> "none", value |-> "", code |-> 0]

InitRetry ==
    /\ IdleDispatcher
    /\ conversion = NoConversion
    /\ IdleMonitor
    /\ \E r \in RetryBudgets : \E d \in InitialDelays :
          call = [pc |-> "calling", retries |-> r, delayMs |-> d,
                  budget |-> r, initialDelay |-> d,
                  invocations |-> 1, results |-> << >>, waits |-> << >>,
                  outcome |-> NotSettled]
    /\ submission = NoSubmission
    /\ monitors = [m \in 1..2 |-> NoMonitor]

\* variant: every error is taken for a rate limit
IsAnyError(error) == error.kind = "error"

\* error.code === 429
IsRateLimit(error) == error.code = RateLimitCode

\* variant: the delay is not doubled
SameDelay(delayMs) == delayMs

\* delayMs * 2
NextDelay(delayMs) == delayMs * 2

\* return await fn(): fn resolves with v, which withRetry returns
FnResolves(v) ==
    /\ call.pc = "calling"
    /\ call' = [call EXCEPT !.pc = "returned",
                            !.results = Append(@, Resolved(v)),
                            !.outcome = Resolved(v)]

\* fn rejects with an error of code c: thrown on when the budget is used up
\* or the error is no rate limit, else the call waits delayMs
FnRejects(c) ==
    /\ call.pc = "calling"
    /\ IF call.retries = 0 \/ ~IsRateLimit(Rejected(c))
       THEN call' = [call EXCEPT !.pc = "threw",
                                 !.results = Append(@, Rejected(c)),
                                 !.outcome = Rejected(c)]
       ELSE call' = [call EXCEPT !.pc = "waiting",
                                 !.results = Append(@, Rejected(c)),
                                 !.waits = Append(@, call.delayMs)]

\* delay(delayMs) ends: withRetry(fn, retries - 1, delayMs * 2) invokes fn
DelayEnds ==
    /\ call.pc = "waiting"
    /\ call' = [call EXCEPT !.pc = "calling",
                            !.retries = @ - 1,
                            !.delayMs = NextDelay(@),
                            !.invocations = @ + 1]

NextRetry ==
    \/ /\ \E v \in Values : FnResolves(v)
       /\ UNCHANGED <<dispatcherVars, conversionVars, monitorVars, submission, monitors>>
    \/ /\ \E c \in ErrorCodes : FnRejects(c)
       /\ UNCHANGED <<dispatcherVars, conversionVars, monitorVars, submission, monitors>>
    \/ /\ DelayEnds
       /\ UNCHANGED <<dispatcherVars, conversionVars, monitorVars, submission, monitors>>

SpecRetry == InitRetry /\ [][NextRetry]_vars

\* ======================================================================
\* Properties
\* ======================================================================
\* positions <<r, i>> of the log entries about hash h whose result is in R
EntriesOf(h, R) ==
    {p \in Requests \X (1..MaxBatchLen) :
        /\ p[2] <= Len(log[p[1]])
        /\ log[p[1]][p[2]].hash = h
        /\ log[p[1]][p[2]].result \in R}

\* the step appends an entry to the log of r: r ran one loop iteration
Dispatched(r) == Len(log'[r]) = Len(log[r]) + 1

NewEntry(r) == log'[r][Len(log'[r])]

\* the activity is addressed to the bridge wallet and matches a registered asset
Eligible(activity) ==
    /\ activity.toAddress # Undefined
    /\ toLowerCase(activity.toAddress) = toLowerCase(BRIDGE_WALLET_ADDRESS)
    /\ ResolveToken(activity, deployment) # NoToken

\* C1: while a hash is in the processed set (claimed, neither released nor
\* cleared), a notification carrying it is skipped: it starts no payout and
\* leaves the set as it is.
C1_ClaimedHashIsSkipped ==
    [][\A r \in Requests :
          (Dispatched(r) /\ batch[r][idx[r]].hash \in processedTxs)
              => /\ NewEntry(r).result = "skip_processed"
                 /\ NewEntry(r).mode = "none"
                 /\ processedTxs' = processedTxs
                 /\ pc'[r] \notin {"send", "wait"}]_vars

\* a second delivery of h1 was skipped while the first one's payout is in flight
C1_Witness ==
    \E r, q \in Requests :
        /\ r # q
        /\ \E i \in DOMAIN log[r] : log[r][i].hash = "h1" /\ log[r][i].result \in InFlight
        /\ \E j \in DOMAIN log[q] : log[q][j].hash = "h1" /\ log[q][j].result = "skip_processed"

\* positions of batch r holding an eligible event with hash h and a
\* well-formed amount
EligibleAt(r, h) ==
    {i \in DOMAIN batch[r] :
        /\ batch[r][i].hash = h
        /\ Eligible(batch[r][i])
        /\ ~parseUnitsThrows(batch[r][i].value,
                             ResolveToken(batch[r][i], deployment).decimals)}

\* payout submissions delivery r made for hash h
SubmissionsBy(r, h) ==
    {i \in DOMAIN log[r] : log[r][i].hash = h /\ log[r][i].result \in Submitted}

Answered(r) == pc[r] = "done" /\ resp[r] = "success"

FailedNow(r) ==
    /\ Len(log'[r]) >= 1
    /\ NewEntry(r).result \in Failures
    /\ \/ Dispatched(r)
       \/ Len(log'[r]) = Len(log[r]) /\ log[r][Len(log[r])].result \in InFlight

\* C3: when the payout of an accepted event fails (parse error, missing
\* destination contract, submission error, reverted receipt) its hash is out
\* of the processed set before the handler goes on, and an eligible event
\* whose hash is not in the set is accepted: it starts a payout attempt.
C3_ReleasedOnFailure ==
    [][\A r \in Requests :
          /\ FailedNow(r) => NewEntry(r).hash \notin processedTxs'
          /\ (/\ Dispatched(r)
              /\ Eligible(batch[r][idx[r]])
              /\ batch[r][idx[r]].hash \notin processedTxs)
                 => NewEntry(r).result \in (Failures \cup {"sending"})]_vars

\* h1 failed after submission, was released, and a later delivery of h1 is
\* being paid out
C3_Witness ==
    \E r, q \in Requests :
        /\ r # q
        /\ \E i \in DOMAIN log[r] :
               log[r][i].hash = "h1" /\ log[r][i].result \in {"fail_send", "fail_revert"}
        /\ \E j \in DOMAIN log[q] : log[q][j].hash = "h1" /\ log[q][j].result \in InFlight
        /\ clears = 0

\* C4: as long as the periodic clear has not fired, at most one payout has
\* succeeded for any hash, however the deliveries interleave.
C4_AtMostOneSuccess ==
    clears = 0 => \A h \in Hashes : Cardinality(EntriesOf(h, {"ok"})) <= 1

\* two deliveries carried h1: one was paid, the other skipped
C4_Witness ==
    /\ clears = 0
    /\ \E r, q \in Requests :
        /\ r # q
        /\ \E i \in DOMAIN log[r] : log[r][i].hash = "h1" /\ log[r][i].result = "ok"
        /\ \E j \in DOMAIN log[q] : log[q][j].hash = "h1" /\ log[q][j].result = "skip_processed"

\* C5 as stated: at every moment at most one payout per hash is in flight,
\* the hourly clear included.
C5_AtMostOneInFlight ==
    \A h \in Hashes : Cardinality(EntriesOf(h, InFlight)) <= 1

\* C6: every hash in the processed set has a payout attempt that is in
\* flight or has succeeded.
C6_ClaimedHasLiveAttempt ==
    \A h \in processedTxs : EntriesOf(h, InFlight \cup {"ok"}) # {}

\* h1 is in the set for a payout in flight although an earlier attempt failed
C6_Witness ==
    /\ "h1" \in processedTxs
    /\ EntriesOf("h1", Failures) # {}
    /\ EntriesOf("h1", InFlight) # {}
    /\ EntriesOf("h1", {"ok"}) = {}

\* some asset of the registry matches the activity's contract metadata
RegisteredAsset(activity) ==
    \E i \in DOMAIN TOKENS(deployment) : MatchesToken(activity, TOKENS(deployment)[i])

\* the dispatcher has a reason to skip the activity
MustSkip(activity) ==
    /\ activity.toAddress # Undefined
    /\ \/ activity.hash \in processedTxs
       \/ toLowerCase(activity.toAddress) # toLowerCase(BRIDGE_WALLET_ADDRESS)
       \/ ~RegisteredAsset(activity)

\* C7: an event skipped because its hash is claimed, its toAddress is not the
\* bridge wallet (letter case ignored) or no registered asset matches it
\* starts no payout and leaves the processed set unchanged.
C7_SkipChangesNothing ==
    [][\A r \in Requests :
          (Dispatched(r) /\ MustSkip(batch[r][idx[r]]))
              => /\ NewEntry(r).result \in Skips
                 /\ NewEntry(r).mode = "none"
                 /\ pc'[r] \notin {"send", "wait"}
                 /\ processedTxs' = processedTxs]_vars

\* a batch paid its first event and skipped its second; only the first hash is claimed
C7_Witness ==
    \E r \in Requests :
        /\ Len(log[r]) = 2
        /\ log[r][1].result = "ok"
        /\ log[r][2].result \in Skips
        /\ processedTxs = {log[r][1].hash}

\* C8: within one batch events are handled in array order and one at a time:
\* every event before the current one has completed, failed or been skipped.
C8_OneAtATimeInOrder ==
    \A r \in Requests :
        /\ Len(log[r]) <= Len(batch[r])
        /\ \A i \in DOMAIN log[r] :
              /\ log[r][i].hash = batch[r][i].hash
              /\ i < Len(log[r]) => log[r][i].result \notin InFlight
        /\ pc[r] \in {"send", "wait"} => Len(log[r]) = idx[r]
        /\ pc[r] = "loop" => Len(log[r]) = idx[r] - 1

\* the second event of a batch is being paid out after the first one completed
C8_Witness ==
    \E r \in Requests :
        /\ Len(log[r]) = 2
        /\ log[r][1].result \in {"ok", "fail_revert"}
        /\ log[r][2].result \in InFlight

\* C9: { success: true } is answered only once every event of the batch has
\* been dispatched, and it is answered even when payouts of the batch failed.
C9_AckAfterAllDispatched ==
    \A r \in Requests :
        /\ resp[r] = "success" =>
              /\ Len(log[r]) = Len(batch[r])
              /\ \A i \in DOMAIN log[r] : log[r][i].result \notin InFlight
        /\ (/\ pc[r] = "done"
            /\ \A i \in DOMAIN log[r] : log[r][i].result # "threw")
              => resp[r] = "success"

\* a batch with a failed payout was acknowledged with success
C9_Witness ==
    \E r \in Requests :
        /\ resp[r] = "success"
        /\ Len(batch[r]) = 2
        /\ \E i \in DOMAIN log[r] : log[r][i].result \in Failures
        /\ \E i \in DOMAIN log[r] : log[r][i].result = "ok"

\* the asset of the registry whose source address the activity names
AssetOf(activity) ==
    LET toks == TOKENS(deployment)
    IN  toks[CHOOSE i \in DOMAIN toks : MatchesToken(activity, toks[i])]

C11_UnconfiguredFailsAndReleases ==
    [][\A r \in Requests :
          (/\ Dispatched(r)
           /\ Eligible(batch[r][idx[r]])
           /\ batch[r][idx[r]].hash \notin processedTxs
           /\ ~ResolveToken(batch[r][idx[r]], deployment).isNative
           /\ ResolveToken(batch[r][idx[r]], deployment).targetAddress = Undefined)
              => /\ NewEntry(r).result = "fail_unconfigured"
                 /\ NewEntry(r).result \notin Submitted
                 /\ NewEntry(r).contract = Undefined
                 /\ pc'[r] \notin {"send", "wait"}
                 /\ NewEntry(r).hash \notin processedTxs']_vars

\* a USDT event failed for want of a destination contract and its hash is free
C11_Witness ==
    \E r \in Requests : \E i \in DOMAIN log[r] :
        /\ log[r][i].result = "fail_unconfigured"
        /\ log[r][i].mode = "contract"
        /\ log[r][i].hash \notin processedTxs
        /\ deployment.USDT_BITLAYER = Undefined

\* the amount of `decimals` decimals, as an integer count of its base units
BaseUnits(v, decimals) == Digits(v \div Pow10(ValueScale - decimals))

\* BaseUnits(v, d) * 10^(18 - d), which is v * 10^(18 - ValueScale) for every d
ScaledBaseUnits(v) == StripLeadingZeros(Digits(v) \o Zeros(18 - ValueScale))

\* the amount has at most `decimals` fractional digits
WellFormed(v, decimals) == v >= 0 /\ FractionDigits(v) <= decimals

\* C12 as stated: for every well-formed source amount with at most
\* sourceDecimals fractional digits the native payout is made with the value
\* base units * 10^(18 - sourceDecimals), digit for digit.
C12_NativeValueScaledExactly ==
    (conversion.native # NotRun /\ WellFormed(conversion.value, conversion.decimals))
        => /\ conversion.native.result = "sending"
           /\ conversion.native.amount = ScaledBaseUnits(conversion.value)

\* C13: the amount a token-mode payout passes to transfer() is the event's
\* amount in the asset's own decimals: the integer number of base units of
\* the source transfer, not re-scaled.
C13_TokenAmountNotRescaled ==
    conversion.token.result = "sending"
        => /\ WellFormed(conversion.value, conversion.decimals)
           /\ conversion.token.amount = BaseUnits(conversion.value, conversion.decimals)

\* 1.5 USDT (6 decimals) is passed to transfer() as 1500000
C13_Witness ==
    /\ conversion.value = 150000000
    /\ conversion.decimals = 6
    /\ conversion.token.result = "sending"
    /\ conversion.token.amount = <<1, 5, 0, 0, 0, 0, 0>>

\* C14 as stated: an amount with at most p1 fractional digits translated to
\* 18 decimals and back to p1 decimals is the amount itself.
C14_RoundTrip ==
    (conversion.back # NoAmount /\ WellFormed(conversion.value, conversion.decimals))
        => conversion.back = BaseUnits(conversion.value, conversion.decimals)

\* C15 as stated: an event whose amount is no well-formed decimal gets no
\* payout submission and its hash is never claimed while it is handled.
C15_MalformedNeverClaimed ==
    \A r \in Requests : \A i \in DOMAIN log[r] :
        batch[r][i].value = NotANumber
            => /\ log[r][i].result \notin Submitted
               /\ ~log[r][i].claimed

\* C15 amended: such an event, when it passes the filters, is claimed before
\* its amount is parsed; the payout fails without a submission and the claim
\* is released before the handler goes on.
C15_MalformedClaimedThenReleased ==
    [][\A r \in Requests :
          (/\ Dispatched(r)
           /\ Eligible(batch[r][idx[r]])
           /\ batch[r][idx[r]].hash \notin processedTxs
           /\ batch[r][idx[r]].value = NotANumber)
              => /\ NewEntry(r).result \in {"fail_parse", "fail_unconfigured"}
                 /\ NewEntry(r).result \notin Submitted
                 /\ NewEntry(r).amount = NoAmount
                 /\ NewEntry(r).claimed
                 /\ pc'[r] \notin {"send", "wait"}
                 /\ NewEntry(r).hash \notin processedTxs']_vars

\* an event with a malformed amount was claimed, failed to parse and is released
C15_Witness ==
    \E r \in Requests : \E i \in DOMAIN log[r] :
        /\ batch[r][i].value = NotANumber
        /\ log[r][i].result = "fail_parse"
        /\ log[r][i].claimed
        /\ log[r][i].hash \notin processedTxs

\* the outcomes of the given kind reported so far
ReportsOf(outcome) == {i \in DOMAIN reports : reports[i].outcome = outcome}

\* C16 as stated: with maximum attempts M TimedOut is reported on the M-th
\* firing of the interval.
C16_TimedOutOnTickM ==
    \A i \in ReportsOf("TimedOut") : reports[i].firing = MaxAttempts

\* C16 amended: M firings start a tick that does work; TimedOut is reported
\* by the firing after them, the (M+1)-th, and by no other.
C16_TimedOutOnTickAfterM ==
    /\ \A i \in ReportsOf("TimedOut") :
          /\ reports[i].firing = MaxAttempts + 1
          /\ attempts = MaxAttempts
    /\ Cardinality(ReportsOf("TimedOut")) <= 1
    /\ (firings > MaxAttempts /\ ReportsOf("Confirmed") = {}) => ReportsOf("TimedOut") # {}

\* no match was found by any tick and the monitor has timed out
C16_Witness ==
    /\ Len(reports) = 1
    /\ reports[1].outcome = "TimedOut"
    /\ ticks = << >>
    /\ firings = MaxAttempts + 1
    /\ failures = 0

\* C17: a started monitor eventually reports Confirmed or TimedOut when the
\* interval keeps firing, also when every tick fails with an RPC error.
C17_EventuallyTerminal == <>(reports # << >>)

\* every tick ended in the catch block and the monitor timed out
C17_Witness ==
    /\ failures = MaxAttempts
    /\ ticks = << >>
    /\ Len(reports) = 1
    /\ reports[1].outcome = "TimedOut"

\* C18 as stated: one terminal outcome; after it nothing of the monitor
\* changes the cursor or the attempt counter or reports again.
C18_NothingAfterTerminal ==
    [][reports # << >> =>
          /\ reports' = reports
          /\ lastCheckedBlock' = lastCheckedBlock
          /\ attempts' = attempts]_vars

\* C19: the transaction reported as the confirmation is in a block whose
\* timestamp is strictly after the source event's, in native and token mode.
C19_ConfirmedIsLater ==
    \A i \in ReportsOf("Confirmed") :
        /\ reports[i].tx.blockNumber \in Heights
        /\ getBlock(reports[i].tx.blockNumber).timestamp > arbitrumTimestamp

\* the scan went over block 2, which has the source event's timestamp and a
\* transfer with the payout's parties and amount, and reported block 3
C19_Witness ==
    /\ arbitrumTimestamp = getBlock(2).timestamp
    /\ Len(reports) = 1
    /\ reports[1].outcome = "Confirmed"
    /\ reports[1].tx.blockNumber = 3
    /\ lastCheckedBlock = 1

\* C20 as stated: lastCheckedBlock never decreases.
C20_CursorNeverDecreases ==
    [][lastCheckedBlock' >= lastCheckedBlock]_vars

\* C21: in native mode the block of every height is fetched at most once
\* while the monitor lives, ticks that an RPC error ends part-way through a
\* scan included.
C21_FetchedAtMostOnce ==
    selectedToken.isNative => \A h \in Heights : fetched[h] <= 1

\* C22: in native mode the scan leaves no gap: every height above the
\* baseline (1) and up to the cursor has been fetched by a scan.
C22_NoGapBelowCursor ==
    selectedToken.isNative =>
        \A h \in Heights : (1 < h /\ h <= lastCheckedBlock) => fetched[h] >= 1

\* the first height whose block is younger than the source event (0: none)
FirstHeightAfter(sourceTimestamp) ==
    IF \E h \in Heights : Timestamp(h) > sourceTimestamp
    THEN CHOOSE h \in Heights :
            /\ Timestamp(h) > sourceTimestamp
            /\ \A k \in Heights : Timestamp(k) > sourceTimestamp => h <= k
    ELSE 0

\* the payout of the watched transfer: the first transfer after the source
\* event, above the baseline, with the expected parties and amount
ThePayout ==
    IF selectedToken.isNative
    THEN PayoutTransaction(FirstHeightAfter(arbitrumTimestamp))
    ELSE PayoutTransfer(FirstHeightAfter(arbitrumTimestamp))

\* C23: when the payout is on the destination chain while the monitor has
\* attempts left and the reads succeed, the monitor eventually reports
\* Confirmed with the payout.
C23_PayoutEventuallyConfirmed ==
    FirstHeightAfter(arbitrumTimestamp) > 1 =>
        <>(\E i \in DOMAIN reports :
              reports[i].outcome = "Confirmed" /\ reports[i].tx = ThePayout)

\* C28: every transaction reported as Confirmed in native mode goes to the
\* expected wallet, comes from the bridge wallet, carries a value above zero
\* that equals the translated expected amount, and lies in a block whose
\* timestamp is strictly after the source event's.
C28_NativeConfirmedIsThePayout ==
    selectedToken.isNative =>
        \A i \in ReportsOf("Confirmed") :
            LET tx == reports[i].tx
            IN  /\ toLowerCase(tx.to) = toLowerCase(walletAddress)
                /\ toLowerCase(tx.from) = toLowerCase(BRIDGE_WALLET)
                /\ tx.value # <<0>>
                /\ tx.value = ScaledBaseUnits(FromAmount)
                /\ tx.blockNumber \in Heights
                /\ tx \in { Blocks[chain][tx.blockNumber].transactions[j] :
                              j \in DOMAIN Blocks[chain][tx.blockNumber].transactions }
                /\ Timestamp(tx.blockNumber) > arbitrumTimestamp

C28_Witness ==
    /\ selectedToken.isNative
    /\ ReportsOf("Confirmed") # {}

\* a transaction that meets every criterion of the native scan
Qualifies(tx, block) ==
    /\ toLowerCase(tx.to) = toLowerCase(walletAddress)
    /\ toLowerCase(tx.from) = toLowerCase(BRIDGE_WALLET)
    /\ tx.value # <<0>>
    /\ tx.value = ScaledBaseUnits(FromAmount)
    /\ block.timestamp > arbitrumTimestamp

\* the positions <<height, index>> of the qualifying transactions in the
\* blocks a native scan of tick n goes through
QualifyingIn(n) ==
    { p \in ScanRange(n) \X (1..batchSize) :
        /\ p[2] \in DOMAIN Blocks[chain][p[1]].transactions
        /\ Qualifies(Blocks[chain][p[1]].transactions[p[2]], Blocks[chain][p[1]]) }

\* the first of them in scan order
FirstQualifying(n) ==
    LET p == CHOOSE p \in QualifyingIn(n) :
                \A q \in QualifyingIn(n) :
                    p[1] < q[1] \/ (p[1] = q[1] /\ p[2] <= q[2])
    IN  Blocks[chain][p[1]].transactions[p[2]]

\* the native scan of tick n returns (no read of it has failed)
NativeScanReturns(n) ==
    /\ selectedToken.isNative
    /\ n \in DOMAIN ticks
    /\ ticks[n].pc = "scan"
    /\ ticks' = RemoveAt(ticks, n)
    /\ failures' = failures

\* C29: when a block that a native scan goes through holds a transaction
\* meeting every criterion, the tick reports Confirmed with the first such
\* transaction, whatever other transfers between the same parties the block
\* holds.
C29_QualifyingIsReported ==
    [][\A n \in 1..MaxInFlight :
          (NativeScanReturns(n) /\ QualifyingIn(n) # {}) =>
              /\ Len(reports') = Len(reports) + 1
              /\ reports'[Len(reports')].outcome = "Confirmed"
              /\ reports'[Len(reports')].tx = FirstQualifying(n)]_vars

\* the token-mode scan of tick n returns (its query has not failed)
TokenScanReturns(n) ==
    /\ ~selectedToken.isNative
    /\ n \in DOMAIN ticks
    /\ ticks[n].pc = "scan"
    /\ ticks' = RemoveAt(ticks, n)
    /\ failures' = failures

\* the heights the query of tick n covers
Queried(n) == fromBlock(ticks[n].currentBlock, ticks[n].from)..ticks[n].currentBlock

\* C30: a token-mode tick queries the heights from max(lastScannedHeight + 1,
\* head - chunkSize) to head, sets lastScannedHeight to head when no
\* candidate matches, and leaves no height in (lastScannedHeight, head]
\* unqueried.
C30_TokenTickCoversRange ==
    [][\A n \in 1..MaxInFlight :
          TokenScanReturns(n) =>
              /\ matchingTx(n) = NoTx => lastCheckedBlock' = ticks[n].currentBlock
              /\ \A h \in Heights :
                    (ticks[n].from < h /\ h <= ticks[n].currentBlock) => h \in Queried(n)]_vars

\* fn has just rejected with an error that is no rate limit
RejectedOtherwise ==
    /\ call.pc = "calling"
    /\ Len(call'.results) = Len(call.results) + 1
    /\ call'.results[Len(call'.results)].kind = "error"
    /\ call'.results[Len(call'.results)].code # RateLimitCode

\* C24: an error of the wrapped call that is no rate limit is thrown to the
\* caller after that one invocation: fn is not invoked again and no backoff
\* is waited, whatever budget is left.
C24_OtherErrorPropagatesAtOnce ==
    [][/\ RejectedOtherwise =>
            /\ call'.pc = "threw"
            /\ call'.outcome = call'.results[Len(call'.results)]
            /\ call'.invocations = call.invocations
            /\ call'.waits = call.waits
            /\ call'.retries = call.retries
       /\ call.pc = "threw" => call' = call]_vars

C24_Witness ==
    /\ call.pc = "threw"
    /\ call.outcome.code # RateLimitCode
    /\ call.retries > 0
    /\ call.retries < call.budget

RECURSIVE Pow2(_)
Pow2(n) == IF n = 0 THEN 1 ELSE 2 * Pow2(n - 1)

\* the results of fn so far are all rate-limit errors
OnlyRateLimited(results) ==
    \A k \in DOMAIN results : results[k] = Rejected(RateLimitCode)

\* C25: a call with budget R and initial backoff d invokes the wrapped
\* function at most R + 1 times (exactly R + 1 times when every invocation is
\* rate limited), waits d * 2^(k-1) before the k-th retry, and returns the
\* first successful result without invoking the function again.
C25_BoundedRetriesWithBackoff ==
    /\ call.invocations <= call.budget + 1
    /\ call.invocations = Len(call.waits) + 1
           - (IF call.pc = "waiting" THEN 1 ELSE 0)
    /\ \A k \in DOMAIN call.waits :
          /\ call.waits[k] = call.initialDelay * Pow2(k - 1)
          /\ call.results[k] = Rejected(RateLimitCode)
    /\ (call.pc = "threw" /\ OnlyRateLimited(call.results)) =>
          call.invocations = call.budget + 1
    /\ call.pc = "returned" =>
          /\ call.outcome = call.results[Len(call.results)]
          /\ call.outcome.kind = "ok"
          /\ Len(call.results) = call.invocations
          /\ OnlyRateLimited(SubSeq(call.results, 1, Len(call.results) - 1))
    /\ call.pc \in {"returned", "threw"} => Len(call.results) = call.invocations

C25_Witness ==
    /\ call.pc = "threw"
    /\ call.budget >= 2
    /\ call.invocations = call.budget + 1
    /\ OnlyRateLimited(call.results)

\* C26: the caller of the wrapper never gets a rate-limit error: the call
\* ends with a result or with an error that is no rate limit.
C26_RateLimitNeverSurfaced ==
    call.pc = "threw" => call.outcome.code # RateLimitCode

\* C27: a monitor is started for a transfer only when the payout of that
\* transfer has been submitted with success.
C27_MonitorOnlyAfterPayout ==
    txHash # "" =>
        \E r \in Requests : \E i \in DOMAIN log[r] :
            log[r][i].hash = txHash /\ log[r][i].result = "ok"

\* the number of ticks that passed the budget test and started to work
Started == firings - Cardinality(ReportsOf("TimedOut"))

\* a tick ends in the catch block
TickAborts == failures' = failures + 1

\* what the catch block leaves alone
AbortKeeps ==
    /\ lastCheckedBlock' = lastCheckedBlock
    /\ checkInterval' = checkInterval
    /\ reports' = reports
    /\ selectedToken' = selectedToken
    /\ arbitrumTimestamp' = arbitrumTimestamp

\* C31 as stated: a tick aborted by an RPC error changes nothing: the cursor,
\* the baseline and the monitor's state stay, and the attempt counter is what
\* it was before the tick, so that it counts the ticks that were not aborted.
C31_AbortedTickChangesNothing ==
    /\ [][TickAborts => AbortKeeps]_vars
    /\ [](ticks = << >> => attempts = Started - failures)

\* C31: the abort itself changes neither the cursor nor the baseline nor the
\* monitor's state nor the attempt counter; the increment made when the tick
\* started stays, so every started tick has used up one attempt.
C31_AbortKeepsCursorAndUsesAttempt ==
    /\ [][TickAborts => (AbortKeeps /\ attempts' = attempts)]_vars
    /\ [](ticks = << >> => attempts = Started)

\* a tick of a scan was aborted and the monitor is still waiting
C31_Witness ==
    /\ failures = 1
    /\ ticks = << >>
    /\ attempts = 1
    /\ fetched # [h \in Heights |-> 0]
    /\ checkInterval
    /\ reports = << >>

\* ------------------------------------------- asset resolution by descriptor
\* the activity is addressed to the bridge wallet (letter case ignored)
ToBridgeWallet(activity) ==
    /\ activity.toAddress # Undefined
    /\ toLowerCase(activity.toAddress) = toLowerCase(BRIDGE_WALLET_ADDRESS)

\* the payout mode of a registered asset
ModeOf(asset) == IF asset.isNative THEN "native" ELSE "contract"

\* C34: every event addressed to the bridge wallet whose contract address is
\* (letter case ignored) the source address of a registered asset, WBTC or
\* USDT, and whose hash is not claimed, is claimed in the guard and handed to
\* the Executor with that asset's payout mode: native for WBTC, a contract
\* transfer for USDT.
C34_RegisteredAssetReachesExecutor ==
    [][\A r \in Requests :
          (/\ Dispatched(r)
           /\ ToBridgeWallet(batch[r][idx[r]])
           /\ RegisteredAsset(batch[r][idx[r]])
           /\ batch[r][idx[r]].hash \notin processedTxs)
              => /\ NewEntry(r).claimed
                 /\ NewEntry(r).mode = ModeOf(AssetOf(batch[r][idx[r]]))]_vars

\* ======================================================================
\* The payout submission: what a payout handler sends to the destination
\* chain for one accepted activity, and what it returns.

\* NETWORKS: the key of each entry and the name given to createNetworkConfig
NETWORKS == [ARBITRUM |-> [name |-> "Arbitrum One"], BITLAYER |-> [name |-> "BitLayer"]]

\* const GAS_SETTINGS: the fee parameters, by network; a fee is kept as the
\* arguments of ethers.utils.parseUnits(text, 'gwei')
GAS_SETTINGS ==
    [BITLAYER |-> [maxPriorityFeePerGas |-> <<"0.05", "gwei">>,
                   maxFeePerGas |-> <<"0.050000007", "gwei">>]]

\* const BITLAYER_GAS_SETTINGS of the legacy handler
BITLAYER_GAS_SETTINGS ==
    [maxPriorityFeePerGas |-> <<"0.05", "gwei">>, maxFeePerGas |-> <<"0.050000007", "gwei">>]

\* ...GAS_SETTINGS[targetNetwork.name]: a property that does not exist reads
\* as undefined, and spreading undefined adds no fields to the request
SpreadGasSettings(name) ==
    IF name \in DOMAIN GAS_SETTINGS THEN GAS_SETTINGS[name]
    ELSE [maxPriorityFeePerGas |-> Undefined, maxFeePerGas |-> Undefined]

\* the fee parameters the handler of the deployment puts into the request:
\* the payout handlers are called with NETWORKS.BITLAYER
FeesOf(dep) ==
    IF dep.handler = "legacy" THEN BITLAYER_GAS_SETTINGS
    ELSE SpreadGasSettings(NETWORKS.BITLAYER.name)

\* await tx.wait(1)
Confirmations == 1

\* processedTxs.add(hash), then the payout handler up to
\* wallet.sendTransaction(...) / tokenContract.transfer(...)
SubmitPayout(activity) ==
    LET payout == StartPayout(activity, ResolveToken(activity, deployment))
        fees   == FeesOf(deployment)
    IN  /\ submission.pc \in {"none", "returned"}
        /\ submission.handled < MaxActivities
        /\ Filter(activity, processedTxs, deployment) = "accept"
        /\ payout.result = "sending"
        /\ processedTxs' = add(processedTxs, activity.hash)
        /\ submission' = [pc |-> "send", hash |-> activity.hash, mode |-> payout.mode,
                          to |-> payout.to, value |-> payout.amount,
                          maxPriorityFeePerGas |-> fees.maxPriorityFeePerGas,
                          maxFeePerGas |-> fees.maxFeePerGas,
                          sends |-> 1, error |-> 0, confirmations |-> 0,
                          success |-> FALSE, handled |-> submission.handled + 1]
        /\ UNCHANGED <<deployment, batch, idx, pc, resp, log, clears>>

\* the submission resolves with the transaction
SubmissionAccepted ==
    /\ submission.pc = "send"
    /\ submission' = [submission EXCEPT !.pc = "wait"]
    /\ UNCHANGED dispatcherVars

\* the submission rejects with an RPC error: catch, return false, and the
\* dispatcher deletes the hash
SubmissionRejected(code) ==
    /\ submission.pc = "send"
    /\ submission' = [submission EXCEPT !.pc = "returned", !.error = code,
                                        !.success = FALSE]
    /\ processedTxs' = delete(processedTxs, submission.hash)
    /\ UNCHANGED <<deployment, batch, idx, pc, resp, log, clears>>

\* tx.wait(1) resolves: return true
PayoutConfirmed ==
    /\ submission.pc = "wait"
    /\ submission' = [submission EXCEPT !.pc = "returned",
                                        !.confirmations = Confirmations,
                                        !.success = TRUE]
    /\ UNCHANGED dispatcherVars

\* tx.wait(1) rejects (the transaction reverted): catch, return false, and
\* the dispatcher deletes the hash
PayoutReverted ==
    /\ submission.pc = "wait"
    /\ submission' = [submission EXCEPT !.pc = "returned", !.success = FALSE]
    /\ processedTxs' = delete(processedTxs, submission.hash)
    /\ UNCHANGED <<deployment, batch, idx, pc, resp, log, clears>>

NextSubmit ==
    \/ /\ \E activity \in Activities : SubmitPayout(activity)
       /\ UNCHANGED <<conversionVars, monitorVars, wrapperVars, monitors>>
    \/ /\ SubmissionAccepted
       /\ UNCHANGED <<conversionVars, monitorVars, wrapperVars, monitors>>
    \/ /\ \E code \in ErrorCodes : SubmissionRejected(code)
       /\ UNCHANGED <<conversionVars, monitorVars, wrapperVars, monitors>>
    \/ /\ PayoutConfirmed
       /\ UNCHANGED <<conversionVars, monitorVars, wrapperVars, monitors>>
    \/ /\ PayoutReverted
       /\ UNCHANGED <<conversionVars, monitorVars, wrapperVars, monitors>>

SpecSubmit == Init /\ [][NextSubmit]_vars

\* C32: a payout submission that receives a rate-limit response is retried
\* within the budget of the shared wrapper: no payout has failed, with its
\* claim released, on the first rate-limit response to its first submission.
C32_RateLimitedSubmissionIsRetried ==
    ~(/\ submission.pc = "returned"
      /\ submission.error = RateLimitCode
      /\ submission.sends = 1
      /\ ~submission.success
      /\ submission.hash \notin processedTxs)

\* C33: every payout that has been submitted, native or contract call,
\* carries the fee parameters configured for BitLayer, and a payout reported
\* successful has had one confirmation.
C33_FeesAndOneConfirmation ==
    submission.pc # "none" =>
        /\ submission.maxPriorityFeePerGas = GAS_SETTINGS.BITLAYER.maxPriorityFeePerGas
        /\ submission.maxFeePerGas = GAS_SETTINGS.BITLAYER.maxFeePerGas
        /\ submission.success => submission.confirmations >= 1

\* ------------------------------------------------- ticks of one monitor
\* C35: the ticks of one monitor never overlap: at most one tick is in
\* flight (between its start and its return) at any time.
C35_TicksNeverOverlap == Len(ticks) <= 1

\* the heights the scan of tick n looks at
Covered(n) == IF selectedToken.isNative THEN ScanRange(n) ELSE Queried(n)

\* C37: the baseline (height 1) is read before the source transfer is
\* submitted and ticking starts after its confirmation, so a payout that has
\* landed when the first tick reads the head, at any height above the
\* baseline and up to that head, lies inside the range the first tick scans.
C37_FirstScanCoversAboveBaseline ==
    \A n \in DOMAIN ticks :
        (firings = 1 /\ ticks[n].pc = "scan")
            => \A h \in Heights :
                  (1 < h /\ h <= ticks[n].currentBlock) => h \in Covered(n)

\* C40: every log query of a token-mode tick has a well-formed range: its
\* lower bound is at most its upper bound, also when the head has not
\* advanced since the last tick and on the first tick after creation.
C40_QueryRangeWellFormed ==
    \A n \in DOMAIN ticks :
        (~selectedToken.isNative /\ ticks[n].pc = "scan")
            => fromBlock(ticks[n].currentBlock, ticks[n].from) <= ticks[n].currentBlock

\* ------------------------------------------- an exception in the dispatcher
\* the event handled by the step raises an exception in the loop body,
\* before the claim: it has no toAddress and its hash is not claimed
ThrowsInLoop(r) ==
    /\ Dispatched(r)
    /\ batch[r][idx[r]].toAddress = Undefined
    /\ batch[r][idx[r]].hash \notin processedTxs

\* C39: when the handling of an event throws outside the payout handlers the
\* batch is answered with an error and not with success, the events after it
\* are never processed, and the processed set and the outcomes of the earlier
\* events of the batch stay as they are.
C39_ThrowAnswersErrorAndStops ==
    [][\A r \in Requests :
          /\ ThrowsInLoop(r)
                => /\ resp'[r] = "error"
                   /\ pc'[r] = "done"
                   /\ processedTxs' = processedTxs
                   /\ SubSeq(log'[r], 1, Len(log[r])) = log[r]
                   /\ NewEntry(r).mode = "none"
          /\ resp[r] = "error"
                => /\ resp'[r] = "error"
                   /\ pc'[r] = "done"
                   /\ log'[r] = log[r]
                   /\ idx'[r] = idx[r]]_vars

\* a batch paid its first event and the second one threw: the batch is
\* answered with an error and the first hash is still claimed
C39_Witness ==
    \E r \in Requests :
        /\ Len(log[r]) = 2
        /\ log[r][1].result = "ok"
        /\ log[r][2].result = "threw"
        /\ resp[r] = "error"
        /\ processedTxs = {log[r][1].hash}

\* --------------------------------------------- releases and other attempts
\* delivery q has a payout for hash h in flight before and after the step
StaysInFlight(q, h) ==
    /\ pc[q] \in {"send", "wait"}
    /\ pc'[q] \in {"send", "wait"}
    /\ batch[q][idx[q]].hash = h

\* C36: the release of a failed payout attempt never removes the claim of a
\* different attempt for the same hash that is still in flight: a step other
\* than the periodic clear leaves the hash of every payout that stays in
\* flight in the processed set.
C36_ReleaseKeepsOtherClaim ==
    [][clears' = clears =>
          \A q \in Requests : \A h \in Hashes :
              (StaysInFlight(q, h) /\ h \in processedTxs) => h \in processedTxs']_vars

\* ======================================================================
\* Two transfers of the same wallet, each watched by its own monitor.  Every
\* call of monitorBitlayerTransaction makes a closure with its own token,
\* baseline, cursor and counter; the transfer buttons are enabled again as
\* soon as startMonitoring has been called, so a second monitor can start
\* while the first is awaiting.  A tick is taken as a whole here.

\* monitorBitlayerTransaction(amount) and, once the transfer is mined,
\* startMonitoring(tx.hash): monitor m watches for fromAmount of the token
\* from the source event's timestamp on.  The second transfer is not older
\* than the first.
CreateMonitor(m, token, sourceTimestamp) ==
    /\ monitors[m].state = "none"
    /\ \A k \in 1..2 : k < m =>
          /\ monitors[k].state # "none"
          /\ monitors[k].arbitrumTimestamp <= sourceTimestamp
    /\ monitors' = [monitors EXCEPT ![m] =
          [state |-> "awaiting", token |-> token, arbitrumTimestamp |-> sourceTimestamp,
           lastCheckedBlock |-> 1, attempts |-> 0, matchingTx |-> << >>,
           together |-> \E k \in 1..2 : k # m /\ monitors[k].state = "awaiting"]]

\* what the scan of a tick of monitor m returns when the head read is h
PairMatch(m, h, increased) ==
    IF monitors[m].token.isNative
    THEN IF increased
         THEN monitorNativeTransfer(monitors[m].token, monitors[m].arbitrumTimestamp,
                                    h, monitors[m].lastCheckedBlock)
         ELSE NoTx
    ELSE monitorTokenTransfer(monitors[m].token, monitors[m].arbitrumTimestamp,
                              h, monitors[m].lastCheckedBlock)

\* One tick of monitor m from the budget test to its return: getBlockNumber
\* returns h, and in native mode getBalance shows an increase or not.
PairTick(m, h, increased) ==
    /\ monitors[m].state = "awaiting"
    /\ monitors' = [monitors EXCEPT ![m] =
          IF BudgetExhausted(@.attempts)
          THEN [@ EXCEPT !.state = "timedOut"]
          ELSE IF PairMatch(m, h, increased) # NoTx
          THEN [@ EXCEPT !.attempts = NextAttempt(@), !.state = "confirmed",
                         !.matchingTx = PairMatch(m, h, increased).hash]
          ELSE [@ EXCEPT !.attempts = NextAttempt(@), !.lastCheckedBlock = h]]

\* One tick of monitor m that ends in the catch block
PairTickFails(m) ==
    /\ monitors[m].state = "awaiting"
    /\ ~BudgetExhausted(monitors[m].attempts)
    /\ monitors' = [monitors EXCEPT ![m].attempts = NextAttempt(@)]

NextPair ==
    \/ /\ \E m \in 1..2 : \E token \in SelectedTokens : \E s \in SourceTimestamps :
             CreateMonitor(m, token, s)
       /\ UNCHANGED <<dispatcherVars, conversionVars, monitorVars, wrapperVars, submission>>
    \/ /\ \E m \in 1..2 : PairTickFails(m)
       /\ UNCHANGED <<dispatcherVars, conversionVars, monitorVars, wrapperVars, submission>>
    \/ /\ \E m \in 1..2 : \E h \in Heights : \E increased \in BOOLEAN :
             PairTick(m, h, increased)
       /\ UNCHANGED <<dispatcherVars, conversionVars, monitorVars, wrapperVars, submission>>

SpecPair == Init /\ [][NextPair]_vars

\* C38: when two monitors of the same recipient, asset and amount have been
\* awaiting at once, one destination transaction confirms at most one of
\* them: two confirmed monitors name different transactions.
C38_OneTransactionConfirmsOneMonitor ==
    (/\ monitors[1].state = "confirmed"
     /\ monitors[2].state = "confirmed"
     /\ monitors[2].together
     /\ monitors[1].token = monitors[2].token)
        => monitors[1].matchingTx # monitors[2].matchingTx

====
